---- MODULE Spec2Model ----
(***************************************************************************)
(* The region / instance selection-and-cache subsystem of the Amazon       *)
(* Connect management portal (connect_admin_console.py): the Selection     *)
(* Store (selected_regions.csv, selected_instances.csv), the Instance      *)
(* Directory Cache (instances_cache.csv), the Instance Resolver            *)
(* (generate_mock_instances) and the part of the Streamlit script that     *)
(* drives them on every run.                                               *)
(*                                                                         *)
(* Python values that pass through a CSV file are modelled with their      *)
(* type: a str is [t |-> "str", v |-> text], the float nan that            *)
(* pandas.read_csv produces for a missing value is NaN.  A file holds      *)
(* text cells; to_csv and read_csv convert between the two.                *)
(***************************************************************************)
EXTENDS Integers, Sequences, FiniteSets, TLC

VARIABLES
    regionsFile,     \* selected_regions.csv
    instancesFile,   \* selected_instances.csv
    cacheFile,       \* instances_cache.csv
    instances_df,    \* st.session_state['instances_df']
    op,              \* the operation that ran last
    arg,             \* its argument (a list of values)
    retList,         \* the list a load returned
    ret,             \* the rows of the DataFrame generate_mock_instances returned
    lookups,         \* the regions whose list_instances() was called, in call order
    responses,       \* what the Directory Service answered to each of these calls
    wrote,           \* "none", "ok" or "failed": the to_csv of the operation
    picker           \* what the last script run offered in the instance picker

vars == <<regionsFile, instancesFile, cacheFile, instances_df, op, arg,
          retList, ret, lookups, responses, wrote, picker>>

-----------------------------------------------------------------------------
(* Bounds of the model *)

\* instances one Directory Service response lists at most
MaxInst == 1
\* rows of a selection file found on disk at startup, at most
MaxPrior == 2

-----------------------------------------------------------------------------
(* Values and CSV conversion *)

Str(s) == [t |-> "str", v |-> s]
NaN == [t |-> "float", v |-> "nan"]

\* texts pandas.read_csv reads as a missing value (its default na_values)
NaValues == {"", "#N/A", "N/A", "NA", "NULL", "NaN", "n/a", "nan", "null"}

\* read_csv of one cell.  No text of the model's universe is numeric or
\* boolean, so dtype inference leaves every column an object column.
ReadCsvCell(text) == IF text \in NaValues THEN NaN ELSE Str(text)

\* to_csv of one cell: a missing value is written as the empty text
ToCsvCell(val) == IF val = NaN THEN "" ELSE val.v

ReadCsvColumn(cells) == [i \in DOMAIN cells |-> ReadCsvCell(cells[i])]
ToCsvColumn(vals) == [i \in DOMAIN vals |-> ToCsvCell(vals[i])]

StrList(texts) == [i \in DOMAIN texts |-> Str(texts[i])]

Range(s) == {s[i] : i \in DOMAIN s}

RECURSIVE SeqsUpTo(_, _)
\* the sequences over S of length at most n
SeqsUpTo(S, n) ==
    IF n = 0 THEN {<<>>}
    ELSE LET shorter == SeqsUpTo(S, n - 1)
         IN  shorter \cup {Append(s, x) : s \in shorter, x \in S}

Injective(s) == \A i, j \in DOMAIN s : i # j => s[i] # s[j]

-----------------------------------------------------------------------------
(* Region catalog *)

\* The first entries of the catalog, in dictionary order.
CONNECT_REGION_MAP ==
    << <<"us-east-1", "us-east-1 (N. Virginia)">>,
       <<"us-west-2", "us-west-2 (Oregon)">> >>

REGION_CODES == [i \in DOMAIN CONNECT_REGION_MAP |-> CONNECT_REGION_MAP[i][1]]
REGION_DISPLAY_NAMES == [i \in DOMAIN CONNECT_REGION_MAP |-> CONNECT_REGION_MAP[i][2]]

-----------------------------------------------------------------------------
(* Durable flat storage: one file is absent, unreadable/unparsable          *)
(* ("corrupt"), or a table.                                                *)

Absent == [st |-> "absent", col |-> "", rows |-> <<>>]
Corrupt == [st |-> "corrupt", col |-> "", rows |-> <<>>]
\* a one-column table
Table(col, rows) == [st |-> "ok", col |-> col, rows |-> rows]

-----------------------------------------------------------------------------
(* Selection Store *)

DefaultRegions == <<Str("us-east-1")>>
\* (variant) the fallback is the empty list, as in load_saved_instances
load_saved_regions_EmptyDefault(file) ==
    IF file.st = "ok" /\ file.col = "region" THEN ReadCsvColumn(file.rows) ELSE <<>>

load_saved_regions(file) ==
    IF file.st # "absent"
    THEN IF file.st = "corrupt"
         THEN DefaultRegions                     \* read_csv raised
         ELSE IF file.col = "region"
              THEN ReadCsvColumn(file.rows)
              ELSE DefaultRegions
    ELSE DefaultRegions
\* (variant) the file is opened for appending: rows are added to a table
\* that is already there
save_regions_to_csv_Append(file, regions, writeOk) ==
    IF writeOk
    THEN Table("region", (IF file.st = "ok" THEN file.rows ELSE <<>>) \o ToCsvColumn(regions))
    ELSE file

\* writeOk: whether to_csv succeeded; a failure is swallowed and the storage
\* keeps its content (the write is atomic for the caller)
save_regions_to_csv(file, regions, writeOk) ==
    IF writeOk THEN Table("region", ToCsvColumn(regions)) ELSE file

load_saved_instances(file) ==
    IF file.st # "absent"
    THEN IF file.st = "corrupt"
         THEN <<>>
         ELSE IF file.col = "instance_id"
              THEN ReadCsvColumn(file.rows)
              ELSE <<>>
    ELSE <<>>

save_instances_to_csv(file, instance_ids, writeOk) ==
    IF writeOk THEN Table("instance_id", ToCsvColumn(instance_ids)) ELSE file

-----------------------------------------------------------------------------
(* Directory Service and identifier generation (the environment)           *)

\* the identifiers the Directory Service knows in a region, in listing order
DirectoryIds(code) ==
    IF code = "us-east-1"
    THEN <<"0c5f3a10-7d1e-4b57-9a53-2f1f4c8e9b01", "5b0e9d7c-3a42-4e0f-8c11-6d2a7f9e4c02">>
    ELSE <<"a1d4e6f8-2b3c-4d5e-9f60-718293a4b503", "e9f8a7b6-c5d4-4e3f-a2b1-0c9d8e7f6a04">>

\* 'InstanceAlias' of a summary: missing (<<>>) or present; "NA" is an alias
\* the service accepts
AliasChoices == {<<>>, <<"NA">>}

\* the InstanceSummaryList values list_instances() can answer for a region:
\* at most MaxInst of the region's instances, in listing order
SummaryLists(code) ==
    LET ids == DirectoryIds(code)
        picks == {s \in SeqsUpTo(DOMAIN ids, MaxInst) :
                     \A i \in 1..(Len(s) - 1) : s[i] < s[i + 1]}
    IN  UNION {{[k \in DOMAIN s |-> [Id |-> ids[s[k]], InstanceAlias |-> al[k]]] :
                   al \in [DOMAIN s -> AliasChoices]} : s \in picks}

\* uuid.uuid4().hex[:8], three times: values that are pairwise distinct,
\* values disjoint from these, and values that repeat
UuidDraws ==
    { <<"3fa9c2d1", "7be04a6f", "c81d55e0">>,
      <<"04d7e9ab", "9a6c1f38", "e2b3d470">>,
      <<"3fa9c2d1", "3fa9c2d1", "04d7e9ab">> }

\* f"instance-{hex}"
MockInstanceId(hex) ==
    CASE hex = "3fa9c2d1" -> "instance-3fa9c2d1"
      [] hex = "7be04a6f" -> "instance-7be04a6f"
      [] hex = "c81d55e0" -> "instance-c81d55e0"
      [] hex = "04d7e9ab" -> "instance-04d7e9ab"
      [] hex = "9a6c1f38" -> "instance-9a6c1f38"
      [] hex = "e2b3d470" -> "instance-e2b3d470"

\* f"MockInstance-{i}"
MockAlias(i) ==
    CASE i = 1 -> "MockInstance-1"
      [] i = 2 -> "MockInstance-2"
      [] i = 3 -> "MockInstance-3"

\* range(1, 4)
MockCount == 3

\* what one lookup in a region can do: answer, or raise (and then the three
\* uuid draws of the handler)
Answers(code) ==
    {[ok |-> TRUE, items |-> l, draws |-> <<>>] : l \in SummaryLists(code)}
    \cup {[ok |-> FALSE, items |-> <<>>, draws |-> d] : d \in UuidDraws}

RECURSIVE AnswerLists(_)
\* one answer per requested region
AnswerLists(regions) ==
    IF regions = <<>> THEN {<<>>}
    ELSE {<<a>> \o rest : a \in Answers(Head(regions).v),
                          rest \in AnswerLists(Tail(regions))}

-----------------------------------------------------------------------------
(* Instance Directory Cache and Instance Resolver *)

\* a table with the columns Instance ID, Region, Instance Alias
CacheTable(rows) == [st |-> "ok", rows |-> rows]
CacheAbsent == [st |-> "absent", rows |-> <<>>]
\* unreadable, unparsable or without a Region column: the read raises
CacheCorrupt == [st |-> "corrupt", rows |-> <<>>]

\* pd.read_csv(INSTANCES_CACHE_FILE)
CachedFrame(cache) ==
    [i \in DOMAIN cache.rows |->
        [InstanceID |-> ReadCsvCell(cache.rows[i].InstanceID),
         Region |-> ReadCsvCell(cache.rows[i].Region),
         InstanceAlias |-> ReadCsvCell(cache.rows[i].InstanceAlias)]]

\* instances_df.to_csv(..., index=False)
FrameToCsv(df) ==
    [i \in DOMAIN df |->
        [InstanceID |-> ToCsvCell(df[i].InstanceID),
         Region |-> ToCsvCell(df[i].Region),
         InstanceAlias |-> ToCsvCell(df[i].InstanceAlias)]]
\* (variant) == regions[0] in place of isin(regions)
IsinRegions_FirstOnly(df, regions) ==
    LET keep(row) == regions # <<>> /\ row.Region = regions[1]
    IN  SelectSeq(df, keep)

\* cached_df[cached_df['Region'].isin(regions)]
IsinRegions(df, regions) ==
    LET keep(row) == row.Region \in Range(regions)
    IN  SelectSeq(df, keep)
\* (variant) per-region policy: the cache answers only when it covers every
\* requested region
DirectoryCacheRead_AllOrNothing(cache, regions) ==
    IF cache.st = "ok"
       /\ \A i \in DOMAIN regions :
             \E k \in DOMAIN cache.rows : CachedFrame(cache)[k].Region = regions[i]
    THEN IsinRegions(CachedFrame(cache), regions)
    ELSE <<>>

\* the cache lookup of generate_mock_instances: the filtered frame, or the
\* empty frame when there is nothing to return
DirectoryCacheRead(cache, regions) ==
    IF cache.st # "absent"
    THEN IF cache.st = "corrupt"
         THEN <<>>
         ELSE IsinRegions(CachedFrame(cache), regions)
    ELSE <<>>
\* (variant) a failed lookup is skipped: no placeholder records
FetchRegion_NoFallback(region, answer) ==
    IF answer.ok
    THEN [k \in DOMAIN answer.items |->
            [InstanceID |-> Str(answer.items[k].Id),
             Region |-> region,
             InstanceAlias |-> IF answer.items[k].InstanceAlias = <<>>
                               THEN Str("No Alias")
                               ELSE Str(answer.items[k].InstanceAlias[1])]]
    ELSE <<>>

\* the body of the loop for one region
FetchRegion(region, answer) ==
    IF answer.ok
    THEN [k \in DOMAIN answer.items |->
            [InstanceID |-> Str(answer.items[k].Id),
             Region |-> region,
             InstanceAlias |-> IF answer.items[k].InstanceAlias = <<>>
                               THEN Str("No Alias")
                               ELSE Str(answer.items[k].InstanceAlias[1])]]
    ELSE [i \in 1..MockCount |->
            [InstanceID |-> Str(MockInstanceId(answer.draws[i])),
             Region |-> region,
             InstanceAlias |-> Str(MockAlias(i))]]

RECURSIVE FetchAll(_, _)
\* for region in regions: ...
FetchAll(regions, answers) ==
    IF regions = <<>> THEN <<>>
    ELSE FetchRegion(Head(regions), Head(answers))
         \o FetchAll(Tail(regions), Tail(answers))
\* (variant) no emptiness test before the write
CacheWriteBack_Always(cache, df, writeOk) ==
    IF writeOk THEN CacheTable(FrameToCsv(df)) ELSE cache

\* (variant) the write keeps the cached rows of the regions it did not fetch
CacheWriteBack_Merge(cache, df, writeOk) ==
    IF df # <<>>
    THEN IF writeOk
         THEN LET fetched == {df[i].Region.v : i \in DOMAIN df}
                  other(row) == row.Region \notin fetched
              IN  CacheTable(SelectSeq(cache.rows, other) \o FrameToCsv(df))
         ELSE cache
    ELSE cache

\* the write-back of a fetched frame
CacheWriteBack(cache, df, writeOk) ==
    IF df # <<>>
    THEN IF writeOk THEN CacheTable(FrameToCsv(df)) ELSE cache
    ELSE cache

\* generate_mock_instances(regions): the returned frame, the cache file
\* afterwards, the lookups made and the outcome of the write
generate_mock_instances(cache, regions, answers, writeOk) ==
    LET cached_df == DirectoryCacheRead(cache, regions)
        instances == FetchAll(regions, answers)
    IN  IF cached_df # <<>>
        THEN [df |-> cached_df, cache |-> cache, lookups |-> <<>>,
              answers |-> <<>>, wrote |-> "none"]
        ELSE [df |-> instances,
              cache |-> CacheWriteBack(cache, instances, writeOk),
              lookups |-> regions,
              answers |-> answers,
              wrote |-> IF instances = <<>> THEN "none"
                        ELSE IF writeOk THEN "ok" ELSE "failed"]

-----------------------------------------------------------------------------
(* Inputs and prior storage contents *)

\* what a region selection file can hold at startup: catalog codes, a code
\* outside the catalog and a text that reads as a missing value
PriorRegionTexts == Range(REGION_CODES) \cup {"eu-west-9", "NA"}

PriorRegionFiles ==
    {Absent, Corrupt}
    \cup {Table(c, rows) : c \in {"region", "name"},
                           rows \in SeqsUpTo(PriorRegionTexts, MaxPrior)}

PriorInstanceTexts == {DirectoryIds("us-east-1")[1], "instance-3fa9c2d1"}

PriorInstanceFiles ==
    {Absent, Corrupt}
    \cup {Table(c, rows) : c \in {"instance_id", "id"},
                           rows \in SeqsUpTo(PriorInstanceTexts, MaxPrior)}

\* a cache row left by an earlier run
PriorRow(id, code, alias) == [InstanceID |-> id, Region |-> code, InstanceAlias |-> alias]

PriorCacheFiles ==
    { CacheAbsent, CacheCorrupt, CacheTable(<<>>),
      CacheTable(<<PriorRow("7c1d2e3f-0a1b-4c2d-8e3f-4a5b6c7d8e05", "eu-west-9", "Legacy")>>),
      CacheTable(<<PriorRow(DirectoryIds("us-east-1")[2], "us-east-1", "NA"),
                   PriorRow("7c1d2e3f-0a1b-4c2d-8e3f-4a5b6c7d8e05", "eu-west-9", "Legacy")>>) }

\* the region lists a caller passes: catalog codes, no code twice
RegionLists ==
    {StrList(s) : s \in {q \in SeqsUpTo(Range(REGION_CODES), Len(REGION_CODES)) : Injective(q)}}

\* the lists saveRegions / saveInstances are called with
SaveRegionLists == {StrList(s) : s \in SeqsUpTo(Range(REGION_CODES), Len(REGION_CODES))}
SaveInstanceLists == {StrList(s) : s \in SeqsUpTo(PriorInstanceTexts, MaxPrior)}

NoPicker == [shown |-> FALSE, default |-> <<>>]
None == [loaded |-> FALSE, rows |-> <<>>]

-----------------------------------------------------------------------------
(* The Selection Store, operation by operation *)

\* the two selection files are independent of each other: prior content is
\* drawn for one of them at a time
InitStore ==
    /\ \/ regionsFile \in PriorRegionFiles /\ instancesFile = Absent
       \/ regionsFile = Absent /\ instancesFile \in PriorInstanceFiles
    /\ cacheFile = CacheAbsent
    /\ instances_df = None
    /\ op = "start" /\ arg = <<>> /\ retList = <<>> /\ ret = <<>>
    /\ lookups = <<>> /\ responses = <<>> /\ wrote = "none"
    /\ picker = NoPicker

LoadRegions ==
    /\ op' = "loadRegions" /\ arg' = <<>>
    /\ retList' = load_saved_regions(regionsFile)
    /\ wrote' = "none"
    /\ UNCHANGED <<regionsFile, instancesFile, cacheFile, instances_df, ret,
                   lookups, responses, picker>>

SaveRegions ==
    \E X \in SaveRegionLists, writeOk \in BOOLEAN :
        /\ op' = "saveRegions" /\ arg' = X
        /\ regionsFile' = save_regions_to_csv(regionsFile, X, writeOk)
        /\ wrote' = IF writeOk THEN "ok" ELSE "failed"
        /\ retList' = <<>>
        /\ UNCHANGED <<instancesFile, cacheFile, instances_df, ret, lookups,
                       responses, picker>>

LoadInstances ==
    /\ op' = "loadInstances" /\ arg' = <<>>
    /\ retList' = load_saved_instances(instancesFile)
    /\ wrote' = "none"
    /\ UNCHANGED <<regionsFile, instancesFile, cacheFile, instances_df, ret,
                   lookups, responses, picker>>

SaveInstances ==
    \E ids \in SaveInstanceLists, writeOk \in BOOLEAN :
        /\ op' = "saveInstances" /\ arg' = ids
        /\ instancesFile' = save_instances_to_csv(instancesFile, ids, writeOk)
        /\ wrote' = IF writeOk THEN "ok" ELSE "failed"
        /\ retList' = <<>>
        /\ UNCHANGED <<regionsFile, cacheFile, instances_df, ret, lookups,
                       responses, picker>>

NextStore == LoadRegions \/ SaveRegions \/ LoadInstances \/ SaveInstances

SpecStore == InitStore /\ [][NextStore]_vars

-----------------------------------------------------------------------------
(* The Instance Resolver, call by call *)

InitResolver ==
    /\ regionsFile = Table("region", <<"us-east-1">>)
    /\ instancesFile = Table("instance_id", <<DirectoryIds("us-east-1")[1]>>)
    /\ cacheFile \in PriorCacheFiles
    /\ instances_df = None
    /\ op = "start" /\ arg = <<>> /\ retList = <<>> /\ ret = <<>>
    /\ lookups = <<>> /\ responses = <<>> /\ wrote = "none"
    /\ picker = NoPicker

\* The Directory Service answers only when it is asked: the answers of a
\* call are drawn when its cache lookup returns nothing.
AnswersAsked(cache, regions) ==
    IF DirectoryCacheRead(cache, regions) # <<>> THEN {<<>>} ELSE AnswerLists(regions)

Resolve ==
    \E regions \in RegionLists, writeOk \in BOOLEAN :
        \E answers \in AnswersAsked(cacheFile, regions) :
            \E r \in {generate_mock_instances(cacheFile, regions, answers, writeOk)} :
                /\ op' = "resolve" /\ arg' = regions
                /\ ret' = r.df
                /\ cacheFile' = r.cache
                /\ lookups' = r.lookups
                /\ responses' = r.answers
                /\ wrote' = r.wrote
                /\ UNCHANGED <<regionsFile, instancesFile, instances_df, retList, picker>>

NextResolver == Resolve

SpecResolver == InitResolver /\ [][NextResolver]_vars

-----------------------------------------------------------------------------
(* The script, run by run *)

\* [key for key, value in CONNECT_REGION_MAP.items() if value in selected_display_regions]
SelectedRegions(selected_display_regions) ==
    LET chosen(entry) == entry[2] \in selected_display_regions
        entries == SelectSeq(CONNECT_REGION_MAP, chosen)
    IN  [i \in DOMAIN entries |-> Str(entries[i][1])]

RECURSIVE DictKeys(_, _)
\* the keys of a dict filled in the order of ids: each key once, at its
\* first occurrence
DictKeys(ids, seen) ==
    IF ids = <<>> THEN <<>>
    ELSE IF Head(ids) \in seen
         THEN DictKeys(Tail(ids), seen)
         ELSE <<Head(ids)>> \o DictKeys(Tail(ids), seen \cup {Head(ids)})

\* list(instance_display_map.keys())
InstanceIds(df) == DictKeys([i \in DOMAIN df |-> df[i].InstanceID], {})
\* (variant) the loaded selection is offered as it is
DefaultInstances_Unfiltered(loaded, instance_ids) == loaded

\* [i for i in default_instances if i in instance_ids]
DefaultInstances(loaded, instance_ids) ==
    LET valid(i) == i \in Range(instance_ids)
    IN  SelectSeq(loaded, valid)

\* what the operator leaves selected in the instance picker: nothing, or any
\* one of the options
Picks(instance_ids) ==
    {<<>>} \cup {<<instance_ids[i]>> : i \in DOMAIN instance_ids}

\* the answers drawn in a run of the script: the Directory Service lists
\* nothing, or the first instance of the region without an alias, or it
\* fails, with one of two sets of draws
ScriptAnswer(a) ==
    IF a.ok
    THEN \A k \in DOMAIN a.items :
            /\ a.items[k].InstanceAlias = <<>>
            /\ \E code \in Range(REGION_CODES) : a.items[k].Id = DirectoryIds(code)[1]
    ELSE Injective(a.draws)

RECURSIVE ScriptAnswerLists(_)
ScriptAnswerLists(regions) ==
    IF regions = <<>> THEN {<<>>}
    ELSE {<<a>> \o rest : a \in {x \in Answers(Head(regions).v) : ScriptAnswer(x)},
                          rest \in ScriptAnswerLists(Tail(regions))}

ScriptAnswers(cache, regions) ==
    IF DirectoryCacheRead(cache, regions) # <<>> THEN {<<>>} ELSE ScriptAnswerLists(regions)

\* a first installation, or the files of an earlier session
Init ==
    /\ \/ /\ regionsFile = Absent
          /\ instancesFile = Absent
          /\ cacheFile = CacheAbsent
       \/ /\ regionsFile = Table("region", <<"us-west-2", "eu-west-9">>)
          /\ instancesFile = Table("instance_id",
                                   <<"instance-3fa9c2d1", DirectoryIds("us-east-1")[1]>>)
          /\ cacheFile \in {CacheAbsent,
                            CacheTable(<<PriorRow(DirectoryIds("us-east-1")[2],
                                                  "us-east-1", "NA")>>)}
    /\ instances_df = None
    /\ op = "start" /\ arg = <<>> /\ retList = <<>> /\ ret = <<>>
    /\ lookups = <<>> /\ responses = <<>> /\ wrote = "none"
    /\ picker = NoPicker

\* whether a write is attempted decides whether its outcome is drawn
Outcomes(attempted) == IF attempted THEN BOOLEAN ELSE {TRUE}

\* One run of the script, from load_saved_regions() to the save of the
\* instance selection.  The operator's choices in the two multiselects and
\* the outcomes of the environment are the inputs; the defaults of the
\* multiselects are among the choices.
Render ==
    \E selected_display_regions \in SUBSET Range(REGION_DISPLAY_NAMES) :
    \E default_regions \in {load_saved_regions(regionsFile)} :
    \E selected_regions \in {SelectedRegions(selected_display_regions)} :
    \E regionsOk \in Outcomes(selected_regions # default_regions) :
        /\ op' = "render"
        /\ UNCHANGED <<arg, retList, ret, lookups, responses, wrote>>
        /\ regionsFile' = IF selected_regions # default_regions
                          THEN save_regions_to_csv(regionsFile, selected_regions, regionsOk)
                          ELSE regionsFile
        /\ IF selected_regions # <<>>
           THEN \E reload \in {~instances_df.loaded
                               \/ Range(selected_regions) # Range(default_regions)} :
                \E answers \in IF reload THEN ScriptAnswers(cacheFile, selected_regions)
                               ELSE {<<>>} :
                \E cacheOk \in Outcomes(reload /\ answers # <<>>) :
                \E r \in {IF reload
                          THEN generate_mock_instances(cacheFile, selected_regions,
                                                       answers, cacheOk)
                          ELSE [df |-> instances_df.rows, cache |-> cacheFile]} :
                \E instance_ids \in {InstanceIds(r.df)} :
                \E default_instances \in
                       {DefaultInstances(load_saved_instances(instancesFile), instance_ids)} :
                \E selected_instance_ids \in Picks(instance_ids) :
                \E instancesOk \in Outcomes(Range(selected_instance_ids)
                                                # Range(default_instances)) :
                    /\ instances_df' = [loaded |-> TRUE, rows |-> r.df]
                    /\ cacheFile' = r.cache
                    /\ picker' = [shown |-> TRUE, default |-> default_instances]
                    /\ instancesFile' =
                          IF Range(selected_instance_ids) # Range(default_instances)
                          THEN save_instances_to_csv(instancesFile,
                                                     selected_instance_ids, instancesOk)
                          ELSE instancesFile
           ELSE /\ picker' = NoPicker
                /\ UNCHANGED <<instances_df, cacheFile, instancesFile>>

\* a new browser session: st.session_state starts over
NewSession ==
    /\ instances_df.loaded
    /\ instances_df' = None
    /\ op' = "newSession"
    /\ picker' = NoPicker
    /\ UNCHANGED <<regionsFile, instancesFile, cacheFile, arg, retList, ret, lookups,
                   responses, wrote>>

Next == Render \/ NewSession

Spec == Init /\ [][Next]_vars

-----------------------------------------------------------------------------
(* Vocabulary of the properties *)

\* the readable cache holds at least one record of the region
Covered(cache, region) ==
    /\ cache.st = "ok"
    /\ \E i \in DOMAIN cache.rows : CachedFrame(cache)[i].Region = region

\* the records of the readable cache whose region is one of regions
CachedFor(cache, regions) ==
    LET inRegions(row) == \E i \in DOMAIN regions : row.Region = regions[i]
    IN  IF cache.st = "ok" THEN SelectSeq(CachedFrame(cache), inRegions) ELSE <<>>

\* the text rows of the cache file for one region
RowsOf(cache, code) ==
    LET ofRegion(row) == row.Region = code
    IN  SelectSeq(cache.rows, ofRegion)

IdsOf(df) == {df[i].InstanceID : i \in DOMAIN df}

\* the region texts that occur in the model
AllRegionTexts == Range(REGION_CODES) \cup {"eu-west-9"}

\* the last operation was a resolve that asked the Directory Service
Fetched == op = "resolve" /\ lookups # <<>>

\* a value after to_csv and read_csv
RoundTrip(val) == ReadCsvCell(ToCsvCell(val))

-----------------------------------------------------------------------------
(* C1 *)

\* C1 (as claimed): when the cache holds records for every requested region,
\* resolve makes no lookup and returns exactly the cached records of these
\* regions; and a resolve of the same regions right after a resolve that
\* populated the cache returns the same records without a lookup.
C1_CacheShortCircuit ==
    [][ op' = "resolve" =>
          /\ (arg' # <<>> /\ \A i \in DOMAIN arg' : Covered(cacheFile, arg'[i]))
                => (lookups' = <<>> /\ ret' = CachedFor(cacheFile, arg'))
          /\ (op = "resolve" /\ wrote = "ok" /\ arg' = arg)
                => (lookups' = <<>> /\ ret' = ret) ]_vars

-----------------------------------------------------------------------------
(* C2 *)

-----------------------------------------------------------------------------
(* C3 *)

\* C3 (as claimed): when the lookup of the one requested region fails, resolve
\* returns exactly 3 records of that region with the aliases MockInstance-1..3
\* in order and pairwise distinct identifiers, and no identifier of the
\* previous resolve call is produced again.
C3_FallbackSynthesis ==
    [][ (op' = "resolve" /\ Len(arg') = 1 /\ responses' # <<>> /\ ~responses'[1].ok)
          => /\ Len(ret') = 3
             /\ \A i \in DOMAIN ret' :
                    /\ ret'[i].Region = arg'[1]
                    /\ ret'[i].InstanceAlias = Str(MockAlias(i))
             /\ \A i, j \in DOMAIN ret' : i # j => ret'[i].InstanceID # ret'[j].InstanceID
             /\ (op = "resolve" => IdsOf(ret) \cap IdsOf(ret') = {}) ]_vars

-----------------------------------------------------------------------------
(* C7 *)

\* C7 (as claimed): resolve returns an empty result only when regions is empty.
C7_Original == (op = "resolve" /\ arg # <<>>) => ret # <<>>

\* C7 (amended): resolve returns an empty result exactly when it asked the
\* Directory Service for every requested region and every lookup succeeded
\* with an empty instance list (regions being empty is the case of no lookup
\* at all); a failed lookup always contributes records.
C7_EmptyOnlyIfNothingListed ==
    op = "resolve"
        => (ret = <<>>
            <=> /\ lookups = arg
                /\ Len(responses) = Len(arg)
                /\ \A i \in DOMAIN responses :
                      responses[i].ok /\ responses[i].items = <<>>)

\* a resolve of two regions returned nothing
C7_Witness == op = "resolve" /\ Len(arg) = 2 /\ ret = <<>>

-----------------------------------------------------------------------------
(* C8 *)

\* C8: a resolve changes the cache file only if it asked the Directory
\* Service and accumulated a non-empty result; a resolve answered from the
\* cache, or one that accumulated nothing, leaves the cache file as it was;
\* and no resolve changes the persisted region or instance selection.
C8_WriteDiscipline ==
    [][ op' = "resolve" =>
          /\ regionsFile' = regionsFile
          /\ instancesFile' = instancesFile
          /\ (cacheFile' # cacheFile => (lookups' # <<>> /\ ret' # <<>>))
          /\ (wrote' # "none" => (lookups' # <<>> /\ ret' # <<>>))
          /\ ((CachedFor(cacheFile, arg') # <<>> \/ ret' = <<>>)
                => (cacheFile' = cacheFile /\ wrote' = "none")) ]_vars

\* a resolve answered from a cache that an earlier fetch wrote
C8_Witness ==
    /\ op = "resolve" /\ arg # <<>> /\ lookups = <<>> /\ wrote = "none"
    /\ ret # <<>> /\ ret = CachedFor(cacheFile, arg)
    /\ \E i \in DOMAIN ret : ret[i].InstanceAlias = Str("MockInstance-1")

-----------------------------------------------------------------------------
(* C9 *)

\* C9 (as claimed): after a resolve that fetched and wrote the cache, the
\* successful write-back of the next resolve stores the records just observed
\* for its regions and keeps the records last observed for every other
\* region.
C9_Original ==
    [][ (Fetched /\ wrote = "ok" /\ op' = "resolve" /\ wrote' = "ok")
          => \A code \in AllRegionTexts :
                IF Str(code) \in Range(arg')
                THEN RowsOf(cacheFile', code) = RowsOf(CacheTable(FrameToCsv(ret')), code)
                ELSE RowsOf(cacheFile', code) = RowsOf(cacheFile, code) ]_vars

\* C9 (amended): a successful write-back leaves in the cache file exactly the
\* records that call fetched: for each requested region the records just
\* observed, and no record of any other region (what was cached for the
\* regions outside the call is dropped); without a successful write-back the
\* cache file stays as it was.
C9_CacheIsLastWriteBack ==
    [][ op' = "resolve" =>
          IF wrote' = "ok"
          THEN /\ cacheFile'.st = "ok"
               /\ Len(cacheFile'.rows) = Len(ret')
               /\ \A code \in AllRegionTexts :
                    IF Str(code) \in Range(arg')
                    THEN RowsOf(cacheFile', code)
                            = RowsOf(CacheTable(FrameToCsv(ret')), code)
                    ELSE RowsOf(cacheFile', code) = <<>>
          ELSE cacheFile' = cacheFile ]_vars

\* a write-back for one region left a cache with records of that region only
C9_Witness ==
    /\ Fetched /\ wrote = "ok" /\ arg = <<Str("us-west-2")>>
    /\ RowsOf(cacheFile, "us-west-2") # <<>>
    /\ RowsOf(cacheFile, "us-east-1") = <<>>

-----------------------------------------------------------------------------
(* C10 *)

\* C10: when the readable cache holds a record for some requested region and
\* none for another, resolve returns the cached records of the covered
\* regions only, none for the uncovered ones, and makes no lookup; every
\* resolve looks up none of the requested regions or all of them in the
\* given order.
C10_PartialHit ==
    [][ op' = "resolve" =>
          /\ (lookups' = <<>> \/ lookups' = arg')
          /\ Len(responses') = Len(lookups')
          /\ ((\E i \in DOMAIN arg' : Covered(cacheFile, arg'[i]))
               /\ (\E i \in DOMAIN arg' : ~Covered(cacheFile, arg'[i])))
                => /\ lookups' = <<>>
                   /\ ret' = CachedFor(cacheFile, arg')
                   /\ \A k \in DOMAIN ret' : Covered(cacheFile, ret'[k].Region)
                   /\ \A i \in DOMAIN arg' :
                        ~Covered(cacheFile, arg'[i])
                            => \A k \in DOMAIN ret' : ret'[k].Region # arg'[i] ]_vars

\* two regions were requested, no lookup was made and only one of the two
\* regions has records in the result
C10_Witness ==
    /\ op = "resolve" /\ Len(arg) = 2 /\ lookups = <<>> /\ ret # <<>>
    /\ \E i \in DOMAIN arg : \A k \in DOMAIN ret : ret[k].Region # arg[i]

-----------------------------------------------------------------------------
(* C4 *)

\* C4 (as claimed): saveRegions(X) for a non-empty X of valid region codes,
\* followed by loadRegions(), returns exactly X, whatever was persisted
\* before.
C4_Original ==
    [][ (op = "saveRegions" /\ arg # <<>> /\ op' = "loadRegions")
          => retList' = arg ]_vars

\* C4 (amended): when the write of saveRegions(X) succeeds, the file holds
\* exactly the rows of X (nothing of the prior content, nothing merged or
\* appended) and a loadRegions() that follows returns exactly X; when the write
\* fails the failure is swallowed and the persisted selection is what it was.
C4_SaveLoadRoundTrip ==
    [][ /\ (op' = "saveRegions" /\ wrote' = "ok")
            => regionsFile' = Table("region", [i \in DOMAIN arg' |-> arg'[i].v])
        /\ (op' = "saveRegions" /\ wrote' = "failed") => regionsFile' = regionsFile
        /\ (op = "saveRegions" /\ wrote = "ok" /\ arg # <<>> /\ op' = "loadRegions")
            => retList' = arg ]_vars

\* two regions, not in catalog order, were saved
C4_Witness ==
    /\ op = "saveRegions" /\ wrote = "ok"
    /\ arg = <<Str("us-west-2"), Str("us-east-1")>>
    /\ load_saved_regions(regionsFile) = arg

-----------------------------------------------------------------------------
(* C6 *)

\* C6: loadRegions() returns exactly ["us-east-1"] whenever the persisted
\* region selection is absent, unreadable or unparsable, or has no region
\* column.
C6_DefaultFallback ==
    (op = "loadRegions"
     /\ (regionsFile.st \in {"absent", "corrupt"} \/ regionsFile.col # "region"))
        => retList = <<Str("us-east-1")>>

\* a load from a parsable file that has rows but no region column
C6_Witness ==
    /\ op = "loadRegions" /\ regionsFile.st = "ok"
    /\ regionsFile.col # "region" /\ Len(regionsFile.rows) = 2
    /\ retList = <<Str("us-east-1")>>

-----------------------------------------------------------------------------
(* C5 *)

\* C5: in every run that shows the instance picker, the default offered is
\* exactly the persisted instance ids, in their persisted order, that occur
\* in the instance directory the session holds in that run; no id absent
\* from that directory is pre-selected.
C5_StaleSelectionFiltered ==
    [][ (op' = "render" /\ picker'.shown)
          => LET live == IdsOf(instances_df'.rows)
                 isLive(i) == i \in live
             IN  /\ instances_df'.loaded
                 /\ picker'.default = SelectSeq(load_saved_instances(instancesFile), isLive)
                 /\ \A k \in DOMAIN picker'.default : picker'.default[k] \in live ]_vars

\* a run offered one of two persisted ids: the other one is not in the
\* directory of the session
C5_Witness ==
    /\ op = "render" /\ picker.shown
    /\ load_saved_instances(instancesFile)
          = <<Str("instance-3fa9c2d1"), Str(DirectoryIds("us-east-1")[1])>>
    /\ picker.default = <<Str(DirectoryIds("us-east-1")[1])>>
    /\ Str("instance-3fa9c2d1") \notin IdsOf(instances_df.rows)
    /\ Len(instances_df.rows) > 1

====
